---------------------------- MODULE Spec2Model ----------------------------
(***************************************************************************)
(* busylib: the log-lifecycle subsystem of src/logger.rs.                  *)
(*   - LogCleaner::cleanup_files_immediately  (retention cleaner)          *)
(*   - LogCleaner::schedule_cleanup_log_files (cleanup scheduler)          *)
(*   - init_logger / change_debug             (logger pipeline)            *)
(*   - log_path                               (path resolver)              *)
(* Time is counted in ticks; TicksPerDay ticks make one day.               *)
(***************************************************************************)
EXTENDS Integers, Sequences, FiniteSets, TLC

\* ------------------------------------------------------------ bounds
NFiles == 3
MaxRuns == 2
MaxNow == 5
TicksPerDay == 2
MaxDays == 1
MaxLen == 2
MaxRecords == 2
MaxWorkers == 2

Files == 1..NFiles
RunIds == 1..MaxRuns
StartNow == MaxNow - 2
\* Last-modified times around the cutoff: a day short of two days old, exactly
\* one day old, one tick old, and one day in the future.
MTimes ==
    {StartNow - 2 * TicksPerDay + 1, StartNow - TicksPerDay, StartNow - 1,
     StartNow + TicksPerDay}
DaysRange == (-1)..MaxDays
\* The scheduler is exercised on a smaller directory.
SchedFiles == 1..(NFiles - 1)
SchedMTimes == {StartNow - 2 * TicksPerDay + 1, StartNow - 1}
\* No time stamp: before every time of the model.
NotExamined == -MaxNow - 1
\* No path: not an entry of the directory.
NoPath == NFiles + 1

VARIABLES
    dir,          \* the entries the directory holds
    dir0,         \* the entries it held before any run (history)
    dirState,     \* "ok", "missing" or "denied": what fs::read_dir meets
    mtime,        \* last-modified time of every entry
    days,         \* LogCleaner.days
    now,          \* the wall clock, Utc::now()
    runs,         \* the cleanup runs: direct calls and job activations
    nRuns,        \* how many runs were started
    fsFault,      \* whether any filesystem operation has failed so far (history)
    sched,        \* the scheduling engine: "none", "started", "failed"
    callerResult, \* what schedule_cleanup_log_files returned
    nextTick,     \* the job's next trigger instant, kept by the engine
    workers,      \* worker threads of the tokio runtime that drives the jobs
    regAged,      \* the entries that were aged when the schedule was registered
    regFault,     \* which step of the registration failed ("none": none did)
    logState,     \* "none", "ready", "panicked"
    stdoutFilter, \* level of the reloadable filter on the console layer
    fileFilter,   \* level of the filter on the file layer
    changeTo,     \* the last level asked for through the handle (0: none)
    stdoutSink,   \* records the console layer wrote
    fileSink,     \* records the file layer wrote
    emitted,      \* records emitted so far
    pIn,          \* the inputs of log_path
    pOut          \* what log_path returned

cleanVars == <<dir, dir0, dirState, mtime, days, now, runs, nRuns, fsFault>>
schedVars == <<sched, callerResult, nextTick, workers, regAged, regFault>>
logVars == <<logState, stdoutFilter, fileFilter, changeTo, stdoutSink, fileSink, emitted>>
pathVars == <<pIn, pOut>>
vars == <<cleanVars, schedVars, logVars, pathVars>>

\* ------------------------------------------------------------ cleaner

\* chrono Duration::num_days: whole days, truncated toward zero.
NumDays(d) ==
    IF d >= 0 THEN d \div TicksPerDay ELSE -((-d) \div TicksPerDay)

IsAgedGe(n, m, maxDays) ==
    NumDays(n - m) >= maxDays

IsAgedReversed(n, m, maxDays) ==
    NumDays(m - n) > maxDays

\* (Utc::now() - DateTime::from(modified)).num_days() > self.days
IsAged(n, m, maxDays) ==
    NumDays(n - m) > maxDays

NoRes == [kind |-> "none", path |-> NoPath]
OkRes == [kind |-> "Ok", path |-> NoPath]
DirErr == [kind |-> "DirErr", path |-> NoPath]
MetaErr == [kind |-> "MetaErr", path |-> NoPath]
DelErr(f) == [kind |-> "DelErr", path |-> f]

IdleRun ==
    [pc |-> "idle", kind |-> "none", paths |-> <<>>, i |-> 0, res |-> NoRes,
     handled |-> 0, verdict |-> [f \in Files |-> "none"],
     examAt |-> [f \in Files |-> NotExamined],
     fault |-> "none", faultAt |-> 0, skipped |-> {}, wake |-> 0, failed |-> FALSE,
     began |-> NotExamined, ended |-> NotExamined]

RECURSIVE Listing(_)
\* The order in which fs::read_dir yields the entries of a set.
Listing(S) ==
    IF S = {} THEN <<>>
    ELSE LET f == CHOOSE x \in S : \A y \in S : x <= y
         IN <<f>> \o Listing(S \ {f})

ReadDirOkLax(state) ==
    state # "missing"

\* fs::read_dir(&self.dir) succeeds only on a directory that exists and can be listed.
ReadDirOk(state) ==
    state = "ok"

\* let paths = fs::read_dir(..).map_err(..)?; an empty listing falls through to Ok(()).
ReadDirOutcome(ok, ents) ==
    IF ~ok THEN [stop |-> TRUE, res |-> DirErr]
    ELSE IF ents = <<>> THEN [stop |-> TRUE, res |-> OkRes]
    ELSE [stop |-> FALSE, res |-> NoRes]

EntryOutcomeSkip(f, metaOk, aged, delOk) ==
    IF ~metaOk THEN [stop |-> FALSE, res |-> NoRes, del |-> FALSE]
    ELSE IF aged THEN
        IF delOk THEN [stop |-> FALSE, res |-> NoRes, del |-> TRUE]
        ELSE [stop |-> TRUE, res |-> DelErr(f), del |-> FALSE]
    ELSE [stop |-> FALSE, res |-> NoRes, del |-> FALSE]

\* One iteration of the for loop: metadata, the age test, remove_file; each `?` returns.
EntryOutcome(f, metaOk, aged, delOk) ==
    IF ~metaOk THEN [stop |-> TRUE, res |-> MetaErr, del |-> FALSE]
    ELSE IF aged THEN
        IF delOk THEN [stop |-> FALSE, res |-> NoRes, del |-> TRUE]
        ELSE [stop |-> TRUE, res |-> DelErr(f), del |-> FALSE]
    ELSE [stop |-> FALSE, res |-> NoRes, del |-> FALSE]

\* The time stamps of a direct call are kept for the claims about one run (history).
Stamp(r) ==
    IF runs[r].kind = "call" THEN now ELSE NotExamined

\* A run that has listed the directory and is still walking the listing.
InCleanup(r) ==
    runs[r].pc = "loop"

\* The cleanup call and the handler have no await point: a job inside them
\* holds its worker thread of the runtime.
Busy(r) ==
    runs[r].kind = "job" /\ runs[r].pc \in {"read_dir", "loop", "returned"}

\* A task moves only on a free worker thread, or on the one it holds.
MayRun(r) ==
    Busy(r) \/ Cardinality({q \in RunIds : Busy(q)}) < workers

\* cleanup_files_immediately, the read_dir call and paths.flatten(): the entries
\* whose DirEntry is an Err are dropped from the listing.
ReadDir(r) ==
    /\ runs[r].pc = "read_dir"
    /\ MayRun(r)
    /\ \E bad \in SUBSET dir :
        LET ok == ReadDirOk(dirState)
            ents == IF ok THEN Listing(dir \ bad) ELSE <<>>
            out == ReadDirOutcome(ok, ents)
        IN  /\ (~ok => bad = {})
            /\ runs' = [runs EXCEPT ![r] =
                  [@ EXCEPT !.pc = IF out.stop THEN "returned" ELSE "loop",
                            !.paths = ents,
                            !.i = 1,
                            !.res = out.res,
                            !.skipped = bad,
                            !.began = Stamp(r),
                            !.ended = IF out.stop THEN Stamp(r) ELSE @,
                            !.fault = IF ok THEN "none" ELSE "list"]]
            /\ fsFault' = (fsFault \/ ~ok \/ bad # {})
    /\ UNCHANGED <<dir, dir0, dirState, mtime, days, now, nRuns>>
    /\ UNCHANGED <<schedVars, logVars, pathVars>>

\* cleanup_files_immediately, one pass of the for loop over the listing.
Entry(r) ==
    /\ runs[r].pc = "loop"
    /\ MayRun(r)
    /\ LET k == runs[r].i
           f == runs[r].paths[k]
       IN \E metaFault, delFault \in BOOLEAN :
           LET metaOk == f \in dir /\ ~metaFault
               aged == IsAged(now, mtime[f], days)
               delOk == f \in dir /\ ~delFault
               out == EntryOutcome(f, metaOk, aged, delOk)
               last == k = Len(runs[r].paths)
           IN  /\ (delFault => metaOk /\ aged)
               /\ dir' = IF out.del THEN dir \ {f} ELSE dir
               /\ runs' = [runs EXCEPT ![r] =
                     [@ EXCEPT !.pc = IF out.stop \/ last THEN "returned" ELSE "loop",
                               !.i = IF out.stop THEN k ELSE k + 1,
                               !.res = IF out.stop THEN out.res
                                       ELSE IF last THEN OkRes ELSE NoRes,
                               !.verdict[f] = IF out.del THEN "deleted"
                                              ELSE IF metaOk /\ ~aged THEN "kept"
                                              ELSE @,
                               !.examAt[f] = IF metaOk THEN Stamp(r) ELSE @,
                               !.ended = IF out.stop \/ last THEN Stamp(r) ELSE @,
                               !.fault = IF ~metaOk THEN "meta"
                                         ELSE IF aged /\ ~delOk THEN "delete"
                                         ELSE @,
                               !.faultAt = IF ~metaOk \/ (aged /\ ~delOk) THEN k ELSE @]]
               /\ fsFault' = (fsFault \/ ~metaOk \/ (aged /\ ~delOk))
    /\ UNCHANGED <<dir0, dirState, mtime, days, now, nRuns>>
    /\ UNCHANGED <<schedVars, logVars, pathVars>>

\* A direct call of cleanup_files_immediately (logger_test::test_delete_log_files).
CallClean ==
    /\ nRuns = 0
    /\ nRuns' = 1
    /\ runs' = [runs EXCEPT ![1] = [@ EXCEPT !.pc = "read_dir", !.kind = "call"]]
    /\ UNCHANGED <<dir, dir0, dirState, mtime, days, now, fsFault>>
    /\ UNCHANGED <<schedVars, logVars, pathVars>>

\* The clock moves on while the program runs.
Tick ==
    /\ now < MaxNow
    /\ now' = now + 1
    /\ UNCHANGED <<dir, dir0, dirState, mtime, days, runs, nRuns, fsFault>>
    /\ UNCHANGED <<schedVars, logVars, pathVars>>

IdleSched ==
    /\ sched = "none"
    /\ callerResult = "none"
    /\ nextTick = 0
    /\ workers = 1
    /\ regAged = {}
    /\ regFault = "none"

NoFilter == [targets |-> {}, level |-> "OFF"]

IdleLog ==
    /\ logState = "none"
    /\ stdoutFilter = NoFilter
    /\ fileFilter = NoFilter
    /\ changeTo = "none"
    /\ stdoutSink = {}
    /\ fileSink = {}
    /\ emitted = <<>>

None == {}
Some(x) == {x}
Unwrap(o) == CHOOSE x \in o : TRUE

IdlePath ==
    /\ pIn = [debug |-> FALSE, logPath |-> None, envKey |-> None,
               env |-> [st |-> "unset", v |-> <<>>]]
    /\ pOut = None

InitDir ==
    /\ dir \in SUBSET Files
    /\ dir0 = dir
    /\ dirState \in {"ok", "missing", "denied"}
    /\ (dirState = "missing" => dir = {})
    /\ mtime \in [Files -> MTimes]
    /\ \A f \in Files \ dir : mtime[f] = StartNow - 1
    /\ days \in DaysRange
    /\ now = StartNow
    /\ runs = [r \in RunIds |-> IdleRun]
    /\ nRuns = 0
    /\ fsFault = FALSE

InitClean ==
    InitDir /\ IdleSched /\ IdleLog /\ IdlePath

NextClean ==
    \/ CallClean
    \/ ReadDir(1)
    \/ Entry(1)
    \/ Tick

SpecClean == InitClean /\ [][NextClean]_vars

\* ------------------------------------------------------------ scheduler

\* The first trigger instant of the cron schedule after time t: the schedule
\* of the model fires at every tick of the clock.
NextInstant(t) ==
    t + 1

\* Longer than any run of the model: a sleep of about 2^64 seconds.
Forever == MaxNow + 1

\* Duration::from_secs((ts - Utc::now()).num_seconds() as u64): a negative
\* difference wraps to about 2^64 seconds.
SleepSecs(ts, n) ==
    IF ts - n >= 0 THEN ts - n ELSE Forever

RegisterOutcomeEager(newOk, cronOk, addOk, startOk) ==
    [result |-> IF newOk /\ cronOk /\ addOk /\ startOk THEN "Ok" ELSE "Err",
     started |-> newOk /\ cronOk /\ addOk]

\* schedule_cleanup_log_files: JobScheduler::new, Job::new_async, add and start,
\* each followed by `?`; the engine ticks only once start has succeeded.
RegisterOutcome(newOk, cronOk, addOk, startOk) ==
    [result |-> IF newOk /\ cronOk /\ addOk /\ startOk THEN "Ok" ELSE "Err",
     started |-> newOk /\ cronOk /\ addOk /\ startOk]

\* self.cron_expression.unwrap_or("0 0 0 * * * *"): the default always parses.
CronParses(cron) ==
    cron \in {"default", "valid"}

HandlerCallsAlways(res) ==
    1

\* if let Err(e) = cleaner.cleanup_files_immediately() { handle_error(e) }
HandlerCalls(res) ==
    IF res.kind # "Ok" THEN 1 ELSE 0

\* schedule_cleanup_log_files, up to its return to the caller.
Schedule ==
    /\ sched = "none"
    /\ callerResult = "none"
    /\ NextInstant(now) <= MaxNow
    /\ \E cron \in {"default", "valid", "malformed"}, newOk, addOk, startOk \in BOOLEAN :
        LET out == RegisterOutcome(newOk, CronParses(cron), addOk, startOk)
        IN  /\ (~newOk => CronParses(cron) /\ addOk /\ startOk)
            /\ (~CronParses(cron) => addOk /\ startOk)
            /\ (~addOk => startOk)
            /\ sched' = IF out.started THEN "started" ELSE "failed"
            /\ callerResult' = out.result
            /\ regFault' = IF ~newOk THEN "new"
                           ELSE IF ~CronParses(cron) THEN "cron"
                           ELSE IF ~addOk THEN "add"
                           ELSE IF ~startOk THEN "start"
                           ELSE "none"
    /\ nextTick' = NextInstant(now)
    /\ regAged' = {f \in dir : NumDays(now - mtime[f]) > days}
    /\ UNCHANGED <<workers, cleanVars, logVars, pathVars>>

\* The engine reaches a trigger instant and spawns the job's future as a task
\* of its own; the closure holds no lock or flag that an earlier activation
\* could keep, so a trigger does not wait for the futures spawned before it.
Trigger ==
    /\ sched = "started"
    /\ now >= nextTick
    /\ nRuns < MaxRuns
    /\ Cardinality({q \in RunIds : Busy(q)}) < workers
    /\ nRuns' = nRuns + 1
    /\ runs' = [runs EXCEPT ![nRuns + 1] = [@ EXCEPT !.pc = "read_dir", !.kind = "job"]]
    /\ nextTick' = NextInstant(now)
    /\ UNCHANGED <<dir, dir0, dirState, mtime, days, now, fsFault>>
    /\ UNCHANGED <<sched, callerResult, workers, regAged, regFault, logVars, pathVars>>

\* The job, after the cleanup call returned (its locals are gone): the error handler.
JobHandleError(r) ==
    /\ runs[r].kind = "job"
    /\ runs[r].pc = "returned"
    /\ MayRun(r)
    /\ runs' = [runs EXCEPT ![r] =
          [IdleRun EXCEPT !.kind = "job", !.pc = "next_tick", !.res = runs[r].res,
                          !.failed = runs[r].res.kind # "Ok",
                          !.handled = runs[r].handled + HandlerCalls(runs[r].res)]]
    /\ UNCHANGED <<dir, dir0, dirState, mtime, days, now, nRuns, fsFault>>
    /\ UNCHANGED <<schedVars, logVars, pathVars>>

\* A wake-up time, capped just past the horizon of the model.
WakeAt(t) ==
    IF t > MaxNow THEN Forever ELSE t

\* The job: l.next_tick_for_job(uuid).await, then the sleep up to that instant.
\* The error value was moved into the handler and is gone.
JobNextTick(r) ==
    /\ runs[r].pc = "next_tick"
    /\ MayRun(r)
    /\ \E known \in BOOLEAN :
        runs' = [runs EXCEPT ![r] =
          [@ EXCEPT !.pc = IF known THEN "sleep" ELSE "done",
                    !.res = NoRes,
                    !.wake = IF known THEN WakeAt(now + SleepSecs(nextTick, now)) ELSE @]]
    /\ UNCHANGED <<dir, dir0, dirState, mtime, days, now, nRuns, fsFault>>
    /\ UNCHANGED <<schedVars, logVars, pathVars>>

\* The job's sleep ends and its future completes.
JobWake(r) ==
    /\ runs[r].pc = "sleep"
    /\ now >= runs[r].wake
    /\ MayRun(r)
    /\ runs' = [runs EXCEPT ![r] = [@ EXCEPT !.pc = "done", !.wake = 0]]
    /\ UNCHANGED <<dir, dir0, dirState, mtime, days, now, nRuns, fsFault>>
    /\ UNCHANGED <<schedVars, logVars, pathVars>>

InitSched ==
    /\ InitDir
    /\ dir \subseteq SchedFiles
    /\ \A f \in dir : mtime[f] \in SchedMTimes
    /\ days \in 0..MaxDays
    /\ sched = "none"
    /\ callerResult = "none"
    /\ nextTick = 0
    /\ workers \in 1..MaxWorkers
    /\ regAged = {}
    /\ regFault = "none"
    /\ IdleLog
    /\ IdlePath

JobStep(r) ==
    \/ ReadDir(r)
    \/ Entry(r)
    \/ JobHandleError(r)
    \/ JobNextTick(r)
    \/ JobWake(r)

NextSched ==
    \/ Schedule
    \/ Trigger
    \/ \E r \in RunIds : JobStep(r)
    \/ Tick

SpecSched == InitSched /\ [][NextSched]_vars

\* The runtime polls every task that can move, the engine fires a due trigger,
\* and the clock advances.
SpecSchedFair ==
    /\ SpecSched
    /\ WF_vars(Tick)
    /\ WF_vars(Trigger)
    /\ \A r \in RunIds : WF_vars(JobStep(r))

\* ------------------------------------------------------------ scheduler: claims

Jobs == {r \in RunIds : runs[r].kind = "job"}

CleanupReturned(r) ==
    runs[r].kind = "job" /\ runs[r].pc \in {"returned", "next_tick", "sleep", "done"}

FreeWorker ==
    Cardinality({q \in RunIds : Busy(q)}) < workers

\* C2: for every trigger the error handler is called once if that trigger's
\* cleanup failed and never if it succeeded; a failed run neither ends the
\* schedule nor reaches the caller of schedule, and the next due trigger still
\* starts a run.
C2_HandlerOncePerFailedRun ==
    /\ \A r \in Jobs :
          /\ runs[r].pc \in {"read_dir", "loop", "returned"} => runs[r].handled = 0
          /\ runs[r].pc \in {"next_tick", "sleep", "done"} =>
                runs[r].handled = IF runs[r].failed THEN 1 ELSE 0
    /\ (nRuns > 0 => sched = "started" /\ callerResult = "Ok")
    /\ (sched = "started" /\ nRuns < MaxRuns /\ now >= nextTick /\ FreeWorker)
          => ENABLED Trigger

\* The first trigger's cleanup failed and was handled once, the next trigger's
\* cleanup succeeded and the handler stayed silent.
C2_Witness ==
    /\ runs[1].kind = "job" /\ runs[1].pc = "done"
    /\ runs[1].failed /\ runs[1].handled = 1
    /\ runs[2].kind = "job" /\ runs[2].pc = "done"
    /\ ~runs[2].failed /\ runs[2].handled = 0

\* C3: at most one cleanup run of the schedule is in flight at any time.
C3_AtMostOneCleanupInFlight ==
    Cardinality({r \in Jobs : InCleanup(r)}) <= 1

\* C5: a failed registration (engine creation, cron expression, add, start)
\* returns an error to the caller; the handler is never called for it and no
\* cleanup run is ever started.
C5_FailedRegistrationRunsNothing ==
    /\ (regFault # "none") =>
          /\ callerResult = "Err"
          /\ sched = "failed"
          /\ nRuns = 0
          /\ \A r \in RunIds : runs[r] = IdleRun
          /\ dir = dir0
          /\ ~ENABLED Trigger
    /\ (callerResult = "Err" => regFault # "none")

\* A malformed cron expression, and the clock past the would-be first trigger.
C5_Witness ==
    /\ regFault = "cron"
    /\ callerResult = "Err"
    /\ now >= nextTick
    /\ regAged # {}

\* C7: once the schedule is registered on a directory with aged files and no
\* filesystem operation fails, the aged files are gone as soon as the cleanup
\* of a trigger has returned (so within three triggers), that happens
\* eventually, and registration has returned before any trigger.
C7_ScheduledCleanupRemovesAged ==
    /\ []((~fsFault /\ \E r \in RunIds : CleanupReturned(r)) => regAged \cap dir = {})
    /\ [](nRuns > 0 => callerResult = "Ok")
    /\ ((sched = "started") ~> (regAged \cap dir = {} \/ fsFault))

\* Aged files at registration, all removed by the first trigger without a fault.
C7_Witness ==
    /\ sched = "started"
    /\ Cardinality(regAged) = 2
    /\ ~fsFault
    /\ nRuns = 1
    /\ CleanupReturned(1)
    /\ regAged \cap dir = {}

\* ------------------------------------------------------------ cleaner: claims

NoOpFailed(r) ==
    runs[r].fault = "none" /\ runs[r].skipped = {}

AgeAtExam(r, f) ==
    NumDays(runs[r].examAt[f] - mtime[f])

Deleted(r) ==
    {f \in Files : runs[r].verdict[f] = "deleted"}

Returned(r) ==
    runs[r].kind = "call" /\ runs[r].pc = "returned"

\* C1: a run of clean in which no listing, metadata or delete operation fails
\* returns success and leaves exactly the entries whose age in whole days, when
\* the run looked at them, was <= max_age_days: every entry older than that is
\* deleted (in particular every entry already older when the run began), none of
\* age <= max_age_days is (age = max_age_days included, and every entry still
\* within max_age_days when the run ended), and with no entry over the limit the
\* run deletes nothing.
C1_CleanKeepsExactlyUnaged ==
    (Returned(1) /\ NoOpFailed(1)) =>
        /\ runs[1].res = OkRes
        /\ \A f \in dir0 : runs[1].examAt[f] # NotExamined
        /\ dir = {f \in dir0 : AgeAtExam(1, f) <= days}
        /\ Deleted(1) = {f \in dir0 : AgeAtExam(1, f) > days}
        /\ \A f \in dir0 : NumDays(runs[1].began - mtime[f]) > days => f \notin dir
        /\ \A f \in dir0 : NumDays(runs[1].ended - mtime[f]) <= days => f \in dir
        /\ ((\A f \in dir0 : AgeAtExam(1, f) <= days) => dir = dir0 /\ Deleted(1) = {})

\* A successful run that deleted an aged entry and kept one of age exactly max_age_days.
C1_Witness ==
    /\ Returned(1) /\ NoOpFailed(1)
    /\ \E f \in dir0 : f \notin dir
    /\ \E g \in dir : AgeAtExam(1, g) = days

\* C6: clean on a directory that is missing or cannot be listed returns the
\* directory-unreadable failure, and the directory holds what it held before.
C6_UnreadableDirNoDeletion ==
    (dirState # "ok") =>
        /\ dir = dir0
        /\ Deleted(1) = {}
        /\ (Returned(1) => runs[1].res = DirErr /\ runs[1].paths = <<>>)

\* A run returned on an unlistable directory that holds an aged entry.
C6_Witness ==
    /\ dirState = "denied"
    /\ Returned(1)
    /\ \E f \in dir : IsAged(runs[1].began, mtime[f], days)

\* C9: entries are processed in listing order and the first metadata or delete
\* failure ends the run: a metadata failure returns MetadataUnavailable, a delete
\* failure returns DeleteFailed with that entry's path; the failing entry and all
\* later ones are untouched, and the earlier deletions stay made.
C9_FirstFailureStopsRun ==
    LET r == runs[1]
        n == Len(r.paths)
        done == IF r.pc = "returned" /\ r.fault = "none" THEN n ELSE r.i - 1
    IN  /\ (r.pc \in {"loop", "returned"} /\ r.fault # "list") =>
              /\ \A k \in 1..n : (r.verdict[r.paths[k]] # "none") <=> (k <= done)
              /\ \A k \in 1..n : k > done => r.paths[k] \in dir
              /\ \A k \in 1..n : r.verdict[r.paths[k]] = "deleted" => r.paths[k] \notin dir
        /\ (r.fault = "meta") =>
              r.pc = "returned" /\ r.res = MetaErr /\ r.i = r.faultAt
        /\ (r.fault = "delete") =>
              r.pc = "returned" /\ r.res = DelErr(r.paths[r.faultAt]) /\ r.i = r.faultAt

\* A delete failure on the second of three entries, after the first was deleted.
C9_Witness ==
    /\ runs[1].fault = "delete"
    /\ runs[1].faultAt = 2
    /\ Len(runs[1].paths) = 3
    /\ runs[1].verdict[runs[1].paths[1]] = "deleted"
    /\ IsAged(now, mtime[runs[1].paths[3]], days)

\* C10: every entry of one run is judged against a single "now", so two entries
\* with the same last-modified time are both deleted or both kept by that run.
C10_OneCutoffPerRun ==
    \A f, g \in Files :
        (/\ runs[1].verdict[f] # "none"
         /\ runs[1].verdict[g] # "none"
         /\ mtime[f] = mtime[g]) => runs[1].verdict[f] = runs[1].verdict[g]

\* ------------------------------------------------------------ logger

Levels == <<"ERROR", "WARN", "INFO", "DEBUG", "TRACE">>

Rank(l) ==
    CHOOSE i \in 1..Len(Levels) : Levels[i] = l

\* Targets: a record passes when its target is listed and its level is at most
\* as verbose as the level of the filter.
Enabled(filter, rec) ==
    /\ rec.target \in filter.targets
    /\ filter.level # "OFF"
    /\ Rank(rec.level) <= Rank(filter.level)

BinName == "bin"
CrateNames == {"dep"}
TargetNames == {BinName, "dep", "other"}

\* Targets::new().with_target(bin_name, level_filter), then every crate of crates_to_log.
BaseFilter(crates, debug) ==
    [targets |-> {BinName} \cup crates,
     level |-> IF debug THEN "DEBUG" ELSE "INFO"]

\* init_logger: the console layer is filtered by the reload layer made of
\* base_filter.clone(), the file layer by base_filter itself.
InitLogger ==
    /\ logState = "none"
    /\ \E debug \in BOOLEAN, crates \in SUBSET CrateNames :
        /\ stdoutFilter' = BaseFilter(crates, debug)
        /\ fileFilter' = BaseFilter(crates, debug)
    /\ logState' = "ready"
    /\ UNCHANGED <<changeTo, stdoutSink, fileSink, emitted>>
    /\ UNCHANGED <<cleanVars, schedVars, pathVars>>

\* change_debug: panics on its first statement; what follows is unreachable.
ChangeDebug ==
    /\ logState = "ready"
    /\ logState' = "panicked"
    /\ changeTo' = "DEBUG"
    /\ UNCHANGED <<stdoutFilter, fileFilter, stdoutSink, fileSink, emitted>>
    /\ UNCHANGED <<cleanVars, schedVars, pathVars>>

\* The caller reloads the filter through the LogHandle init_logger returned:
\* the handle belongs to the reload layer, which filters the console layer only.
HandleModify ==
    /\ logState = "ready"
    /\ \E level \in {"INFO", "DEBUG"} :
        /\ stdoutFilter' = [stdoutFilter EXCEPT !.level = level]
        /\ changeTo' = level
    /\ UNCHANGED <<logState, fileFilter, stdoutSink, fileSink, emitted>>
    /\ UNCHANGED <<cleanVars, schedVars, pathVars>>

\* A record is emitted (by any thread that still runs) and offered to both layers.
Emit ==
    /\ logState \in {"ready", "panicked"}
    /\ Len(emitted) < MaxRecords
    /\ \E target \in TargetNames, level \in {"INFO", "DEBUG"} :
        LET rec == [id |-> Len(emitted) + 1, target |-> target, level |-> level,
                    asked |-> changeTo]
        IN  /\ emitted' = Append(emitted, rec)
            /\ stdoutSink' = IF Enabled(stdoutFilter, rec)
                             THEN stdoutSink \cup {rec.id} ELSE stdoutSink
            /\ fileSink' = IF Enabled(fileFilter, rec)
                           THEN fileSink \cup {rec.id} ELSE fileSink
    /\ UNCHANGED <<logState, stdoutFilter, fileFilter, changeTo>>
    /\ UNCHANGED <<cleanVars, schedVars, pathVars>>

\* A fixed directory for the specifications that do not clean.
FixedDir ==
    /\ dir = {}
    /\ dir0 = {}
    /\ dirState = "missing"
    /\ mtime = [f \in Files |-> StartNow - 1]
    /\ days = 0
    /\ now = StartNow
    /\ runs = [r \in RunIds |-> IdleRun]
    /\ nRuns = 0
    /\ fsFault = FALSE

InitLog ==
    FixedDir /\ IdleSched /\ IdleLog /\ IdlePath

NextLog ==
    \/ InitLogger
    \/ ChangeDebug
    \/ HandleModify
    \/ Emit

SpecLog == InitLog /\ [][NextLog]_vars

\* ------------------------------------------------------------ logger: claims

\* C4: both sinks apply the same threshold at all times; a DEBUG record from a
\* matching target emitted after the threshold was changed from INFO to DEBUG
\* through the handle reaches the console sink and the file sink, and one
\* emitted before the change reaches neither.
C4_BothSinksFollowThreshold ==
    /\ stdoutFilter.level = fileFilter.level
    /\ \A k \in 1..Len(emitted) :
        LET rec == emitted[k]
        IN  (rec.level = "DEBUG" /\ rec.target \in fileFilter.targets) =>
              /\ rec.asked = "DEBUG" => k \in stdoutSink /\ k \in fileSink
              /\ (rec.asked = "none" /\ fileFilter.level = "INFO") =>
                    k \notin stdoutSink /\ k \notin fileSink

\* ------------------------------------------------------------ path resolver

Whitespace == {" "}
Alphabet == {"a", "/", " "}

Strings ==
    UNION {[1..n -> Alphabet] : n \in 0..MaxLen}

\* "/opt/logs/apps/"
DefaultLogPath ==
    <<"/", "o", "p", "t", "/", "l", "o", "g", "s", "/", "a", "p", "p", "s", "/">>

\* env::temp_dir()
TempDir ==
    <<"/", "t", "m", "p">>

\* A value of the variable that is not valid Unicode.
NotUnicode ==
    <<"/", "\\xff">>

RECURSIVE TrimStart(_)
TrimStart(str) ==
    IF str # <<>> /\ Head(str) \in Whitespace THEN TrimStart(Tail(str)) ELSE str

RECURSIVE TrimEnd(_)
TrimEnd(str) ==
    IF str # <<>> /\ str[Len(str)] \in Whitespace
    THEN TrimEnd(SubSeq(str, 1, Len(str) - 1)) ELSE str

\* str::trim
Trim(str) ==
    TrimEnd(TrimStart(str))

\* env::var(key): Ok only for a variable that is set to valid Unicode.
EnvVar(env) ==
    IF env.st = "set" THEN Some(env.v) ELSE None

log_path_env_first(debugMode, logPath, envKey, env) ==
    IF debugMode THEN TempDir
    ELSE IF envKey # None /\ EnvVar(env) # None THEN Unwrap(EnvVar(env))
    ELSE IF logPath # None THEN Trim(Unwrap(logPath))
    ELSE DefaultLogPath

\* log_path(log_path, env_log_path_key)
log_path(debugMode, logPath, envKey, env) ==
    IF debugMode THEN TempDir
    ELSE IF logPath # None THEN Trim(Unwrap(logPath))
    ELSE IF envKey # None THEN
        IF EnvVar(env) # None THEN Unwrap(EnvVar(env)) ELSE DefaultLogPath
    ELSE DefaultLogPath

EnvStates ==
    {[st |-> "unset", v |-> <<>>], [st |-> "bad", v |-> NotUnicode]}
        \cup {[st |-> "set", v |-> str] : str \in Strings}

InitPath ==
    /\ FixedDir /\ IdleSched /\ IdleLog
    /\ pIn \in [debug : BOOLEAN,
                logPath : {None} \cup {Some(str) : str \in Strings},
                envKey : {None, Some("LOG_PATH")},
                env : EnvStates]
    /\ pOut = None

CallLogPath ==
    /\ pOut = None
    /\ pOut' = Some(log_path(pIn.debug, pIn.logPath, pIn.envKey, pIn.env))
    /\ UNCHANGED <<pIn, cleanVars, schedVars, logVars>>

NextPath ==
    CallLogPath

SpecPath == InitPath /\ [][NextPath]_vars

\* ------------------------------------------------------------ path resolver: claims

\* t is str without its leading and trailing whitespace.
IsTrimOf(t, str) ==
    /\ \E i, j \in 0..Len(str) :
        /\ i + j + Len(t) = Len(str)
        /\ \A k \in 1..i : str[k] \in Whitespace
        /\ \A k \in 1..Len(t) : t[k] = str[i + k]
        /\ \A k \in 1..j : str[i + Len(t) + k] \in Whitespace
    /\ (t # <<>> => t[1] \notin Whitespace /\ t[Len(t)] \notin Whitespace)

Resolved(out, varIsSet) ==
    IF pIn.debug THEN out = TempDir
    ELSE IF pIn.logPath # None THEN IsTrimOf(out, Unwrap(pIn.logPath))
    ELSE IF pIn.envKey # None /\ varIsSet THEN out = pIn.env.v
    ELSE out = DefaultLogPath

\* C8 (as amended): log_path returns the first match of: the temporary directory
\* in development mode; the explicit path, trimmed; the value of the environment
\* variable when a name is given and the variable is set to valid Unicode; the
\* default /opt/logs/apps/.
C8_ResolutionOrder ==
    pOut # None => Resolved(Unwrap(pOut), pIn.env.st = "set")

\* An explicit path with surrounding whitespace wins over a set variable.
C8_Witness ==
    /\ pOut # None
    /\ ~pIn.debug
    /\ pIn.logPath = Some(<<" ", "a">>)
    /\ pIn.envKey # None
    /\ pIn.env.st = "set"
    /\ pOut = Some(<<"a">>)

\* C8 (as stated): the value of the variable is returned whenever the variable is set.
C8_AsStated ==
    pOut # None => Resolved(Unwrap(pOut), pIn.env.st # "unset")

=============================================================================
